---- MODULE Spec2Model ----
(***************************************************************************)
(* A model of handler/goproxy.go: the write-behind cache of the Go module *)
(* proxy (goproxyCacher.Set / Get and the background synchronizer         *)
(* startSetCache), and the redirect decision of hGoproxy.                 *)
(***************************************************************************)
EXTENDS Naturals, Integers, Sequences, FiniteSets, TLC

\* ------------------------------------------------------------------ bounds

\* Number of Set calls made on one cacher in a run.
MaxSetCalls == 3

\* Number of Set calls made on each cacher when two processes run.
MaxSetCallsEach == 2

\* Longest tail appended to a digest prefix to make the entity tags.
MaxSuffix == 3

\* Largest size of a small object of the bucket, in bytes.
MaxObjectSize == 3

\* Length of a content stream, in chunks; a file holding fewer is partial.
FullLen == 2

\* ------------------------------------------------------------ the universe

Procs == {"p1", "p2"}

Callers == {"c1", "c2"}

Keys == {"m/@v/v1.info", "m/@v/v1.zip"}

\* Errors of the Object Store other than "object not found".
StoreErrors == {"ErrTimeout", "ErrDenied"}

\* The error the Object Store answers for an absent object.
NoSuchKey == "NoSuchKey"

\* fs.ErrNotExist, the NotFound condition of Get.
ErrNotExist == "fs.ErrNotExist"

\* Local I/O errors (disk full, permission, ...), not fs.ErrNotExist.
ErrIO == "ErrIO"

Nil == "nil"

\* isMinIOObjectNotExist(err): the store's error says the object is absent.
isMinIOObjectNotExist(err) == err = NoSuchKey

\* hex.EncodeToString(sha256.Sum256(name)): one fixed digest per name,
\* different names having different digests.
Sha256Hex(name) ==
  CASE name = "m/@v/v1.info" -> "9f2c"
    [] name = "m/@v/v1.zip" -> "41d7"

\* filepath.Join(gc.localCacheRoot, digest): the staged file of a name in
\* the private directory of process p.
LocalCacheFileName(p, name) == << p, Sha256Hex(name) >>

\* path.Ext of the cache keys of the model.
KeyExt(name) ==
  CASE name = "m/@v/v1.info" -> ".info"
    [] name = "m/@v/v1.zip" -> ".zip"

\* The content type startSetCache gives an upload.
ContentTypeOf(name) ==
  CASE KeyExt(name) = ".info" -> "application/json; charset=utf-8"
    [] KeyExt(name) = ".mod" -> "text/plain; charset=utf-8"
    [] KeyExt(name) = ".zip" -> "application/zip"
    [] OTHER -> ""

\* ------------------------------------------------------------------- state

VARIABLES
  world,          \* the processes, callers and keys of this run (fixed)
  files,          \* files[p]: the staging directory of p, path -> file
  settingCaches,  \* settingCaches[p]: the pending-set registry, name -> path
  settingMutex,   \* settingMutex[p]: the holder of gc.settingMutex, or Nil
  setter,         \* setter[p][c]: a goroutine calling gc.Set
  sync,           \* sync[p]: the goroutine of startSetCache
  remote,         \* the Object Store bucket, name -> object
  ctxDone,        \* base.Context is cancelled
  storeErr,       \* the error every call of the Object Store fails with, or Nil
  get,            \* the goroutine calling gc.Get
  hist,           \* history: what the claims need to remember
  reader,         \* the goproxyCacheReader Get builds from an entity tag
  http,           \* a request in hGoproxy, and its response
  probe,          \* a call of isAutoRedirectableGoproxyCache
  shutdown        \* the shutdown job of init(), and the staging root

\* The variables of the request handlers, which the cacher leaves alone.
reqVars == << reader, http, probe, shutdown >>

vars == << world, files, settingCaches, settingMutex, setter, sync, remote,
           ctxDone, storeErr, get, hist, reader, http, probe, shutdown >>

\* A function with one more (or one replaced) mapping.
Put(f, k, v) == [x \in DOMAIN f \cup {k} |-> IF x = k THEN v ELSE f[x]]

\* (a removal that removes nothing)
DropNothing(f, k) == f

\* A function without the mapping of k.
Drop(f, k) == [x \in DOMAIN f \ {k} |-> f[x]]

\* The sum of f over the set S.
RECURSIVE SumOver(_, _)
SumOver(f, S) ==
  IF S = {} THEN 0
  ELSE LET x == CHOOSE y \in S : TRUE IN f[x] + SumOver(f, S \ {x})

\* The empty directory, registry or bucket.
Empty == [x \in {} |-> x]

\* No content: the body of no object, the descriptor of no file.
NoBody == [from |-> "", len |-> 0]

IdleSetter == [pc |-> "idle", name |-> "", ret |-> "none"]

SyncOff ==
  [pc |-> "off", todo |-> {}, seen |-> {}, k |-> "", v |-> << >>,
   fd |-> NoBody, size |-> 0, by |-> ""]

IdleGet ==
  [pc |-> "idle", name |-> "", err |-> "none", body |-> NoBody]

NoReader == [pc |-> "none", eTag |-> << >>, checksum |-> << >>]

NoResponse == [kind |-> "none", err |-> Nil, url |-> << >>]

NoRequest == [pc |-> "none", rawPath |-> << >>, method |-> "", presignErr |-> Nil,
              res |-> NoResponse]

NoProbe == [pc |-> "none", name |-> << >>, result |-> FALSE]

\* The shutdown job has not been run; the staging root exists.
NoShutdown == [pc |-> "none", i |-> 0, root |-> TRUE, tries |-> 0, succ |-> 0]

NoHist ==
  [succeeded |-> [p \in Procs |-> {}],
   scanKeys |-> [p \in Procs |-> {}],
   scanClean |-> [p \in Procs |-> FALSE],
   calls |-> [p \in Procs |-> [k \in Keys |-> 0]],
   failed |-> [p \in Procs |-> {}],
   started |-> [p \in Procs |-> 0],
   staged |-> [p \in Procs |-> {}],
   retry |-> [p \in Procs |-> {}],
   created |-> [p \in Procs |-> [k \in Keys |-> 0]]]

\* The cacher of every process of world w right after init().
NewCachers(w) ==
  /\ world = w
  /\ files = [p \in Procs |-> Empty]
  /\ settingCaches = [p \in Procs |-> Empty]
  /\ settingMutex = [p \in Procs |-> Nil]
  /\ setter = [p \in Procs |-> [c \in Callers |-> IdleSetter]]
  /\ sync = [p \in Procs |-> SyncOff]
  /\ remote = Empty
  /\ ctxDone = FALSE
  /\ storeErr = Nil
  /\ get = IdleGet
  /\ hist = NoHist
  /\ shutdown = NoShutdown

InitWith(w) ==
  /\ NewCachers(w)
  /\ reader = NoReader
  /\ http = NoRequest
  /\ probe = NoProbe

\* One process, two concurrent callers of Set, two cache keys.
OneProcess ==
  [procs |-> {"p1"}, callers |-> Callers, keys |-> Keys, calls |-> MaxSetCalls,
   faults |-> {"ErrTimeout"}]

\* Two independent processes over one bucket, one caller each, one key.
TwoProcesses ==
  [procs |-> Procs, callers |-> {"c1"}, keys |-> {"m/@v/v1.zip"},
   calls |-> MaxSetCallsEach, faults |-> {"ErrTimeout"}]

\* One process, one caller of Set, and the caller of Get.
Reader ==
  [procs |-> {"p1"}, callers |-> {"c1"}, keys |-> Keys, calls |-> MaxSetCalls,
   faults |-> StoreErrors]

Init == InitWith(OneProcess)

InitTwo == InitWith(TwoProcesses)

InitGet == InitWith(Reader)


\* ----------------------------------------------------------- gc.Set (282-327)

\* (a Once that runs its function on every call)
OnceDoEveryTime(p) == TRUE

\* sync.Once.Do runs the function only if no call of Do has run it.
OnceDo(p) == sync[p].pc = "off"

\* gc.startSetCacheOnce.Do(gc.startSetCache): the first Set of a cacher
\* starts its synchronizer, which begins with a sleep.
StartSetCacheOnce(p) ==
  IF OnceDo(p) THEN [sync EXCEPT ![p] = [SyncOff EXCEPT !.pc = "sleep"]] ELSE sync

\* (a Set that never finds the staged file of another call)
StagedFileExistsNever(p, path) == FALSE

\* os.Stat(localCacheFileName) answers nil: a file is at the path.
StagedFileExists(p, path) == path \in DOMAIN files[p]

\* A Set call returns r.
SetReturn(p, c, r) ==
  /\ setter' = [setter EXCEPT ![p][c] = [pc |-> "idle", name |-> "", ret |-> r]]
  /\ hist' = IF r = Nil
             THEN [hist EXCEPT !.succeeded[p] = @ \cup {setter[p][c].name}]
             ELSE [hist EXCEPT !.failed[p] = @ \cup {setter[p][c].name}]

\* Set is called: the synchronizer is started once, the path is computed.
SetCall(p, c, name) ==
  /\ setter[p][c].pc = "idle"
  /\ SumOver(hist.calls[p], Keys) < world.calls
  /\ name \in world.keys
  /\ sync' = StartSetCacheOnce(p)
  /\ setter' = [setter EXCEPT ![p][c] =
                  [pc |-> "lock", name |-> name, ret |-> "none"]]
  /\ hist' = [hist EXCEPT !.calls[p][name] = @ + 1,
                          !.scanKeys[p] = @ \ {name},
                          !.started[p] = IF OnceDo(p) THEN @ + 1 ELSE @]
  /\ UNCHANGED << world, reqVars, files, settingCaches, settingMutex, remote, ctxDone, storeErr,
                  get >>

\* (an Unlock that does not release the mutex)
UnlockNot(p) == settingMutex

\* gc.settingMutex.Unlock() (299, 302, 308, 312; 200, 230).
Unlock(p) == [settingMutex EXCEPT ![p] = Nil]

\* gc.settingMutex.Lock() (296).
SetLock(p, c) ==
  /\ setter[p][c].pc = "lock"
  /\ settingMutex[p] = Nil
  /\ settingMutex' = [settingMutex EXCEPT ![p] = c]
  /\ setter' = [setter EXCEPT ![p][c].pc = "stat"]
  /\ UNCHANGED << world, reqVars, files, settingCaches, sync, remote, ctxDone, storeErr, get, hist >>

\* os.Stat of the staged file (298-304): a file there means "already
\* staged", success; another error is returned; absent goes on to create.
SetStat(p, c) ==
  LET path == LocalCacheFileName(p, setter[p][c].name) IN
  /\ setter[p][c].pc = "stat"
  /\ \/ /\ StagedFileExists(p, path)
        /\ settingMutex' = Unlock(p)
        /\ SetReturn(p, c, Nil)
     \/ /\ settingMutex' = Unlock(p)
        /\ SetReturn(p, c, ErrIO)
     \/ /\ ~StagedFileExists(p, path)
        /\ setter' = [setter EXCEPT ![p][c].pc = "create"]
        /\ UNCHANGED << settingMutex, hist >>
  /\ UNCHANGED << world, reqVars, files, settingCaches, sync, remote, ctxDone, storeErr, get >>

\* os.Create (306-312): the file is created empty (an existing one is
\* truncated) and the mutex released; a failure is returned.
SetCreate(p, c) ==
  LET name == setter[p][c].name
      path == LocalCacheFileName(p, name) IN
  /\ setter[p][c].pc = "create"
  /\ settingMutex' = Unlock(p)
  /\ \/ /\ files' = [files EXCEPT ![p] = Put(@, path, [by |-> c, len |-> 0])]
        /\ setter' = [setter EXCEPT ![p][c].pc = "copy"]
        /\ hist' = [hist EXCEPT !.created[p][name] = @ + 1]
     \/ /\ SetReturn(p, c, ErrIO)
        /\ UNCHANGED files
  /\ UNCHANGED << world, reqVars, settingCaches, sync, remote, ctxDone, storeErr, get >>

\* What a write through the descriptor of caller c leaves at the path.
WriteFile(p, c, path, n) ==
  IF path \in DOMAIN files[p] /\ files[p][path].by = c
  THEN [files EXCEPT ![p][path].len = n]
  ELSE files

\* (a Set that goes on after a copy that failed)
AfterCopyIgnoringErr(n) == "close"

\* Where Set goes after io.Copy wrote n chunks (314-317): a copy that
\* failed, having written less than the content, leads to the cleanup.
AfterCopy(n) == IF n = FullLen THEN "close" ELSE "cleanup"

\* io.Copy(localCacheFile, content) (314-317): all of the content is
\* written, or the copy fails leaving less.
SetCopy(p, c) ==
  LET path == LocalCacheFileName(p, setter[p][c].name) IN
  /\ setter[p][c].pc = "copy"
  /\ \E n \in 0 .. FullLen :
       /\ files' = WriteFile(p, c, path, n)
       /\ setter' = [setter EXCEPT ![p][c].pc = AfterCopy(n)]
  /\ UNCHANGED << world, reqVars, settingCaches, settingMutex, sync, remote, ctxDone, storeErr,
                  get, hist >>

\* localCacheFile.Close() (319-322).
SetClose(p, c) ==
  /\ setter[p][c].pc = "close"
  /\ \/ setter' = [setter EXCEPT ![p][c].pc = "store"]
     \/ setter' = [setter EXCEPT ![p][c].pc = "cleanup"]
  /\ UNCHANGED << world, reqVars, files, settingCaches, settingMutex, sync, remote,
                  ctxDone, storeErr, get, hist >>

\* os.Remove(localCacheFile.Name()) after a failed copy or close (315,
\* 320): whatever is at the path is removed, and the error returned.
SetCleanup(p, c) ==
  LET path == LocalCacheFileName(p, setter[p][c].name) IN
  /\ setter[p][c].pc = "cleanup"
  /\ files' = [files EXCEPT ![p] = Drop(@, path)]
  /\ SetReturn(p, c, ErrIO)
  /\ UNCHANGED << world, reqVars, settingCaches, settingMutex, sync, remote, ctxDone, storeErr, get >>

\* gc.settingCaches.Store(name, path) and return nil (324-326).
SetStore(p, c) ==
  LET name == setter[p][c].name IN
  /\ setter[p][c].pc = "store"
  /\ settingCaches' = [settingCaches EXCEPT ![p] =
                         Put(@, name, LocalCacheFileName(p, name))]
  /\ setter' = [setter EXCEPT ![p][c] = [pc |-> "idle", name |-> "", ret |-> Nil]]
  /\ hist' = [hist EXCEPT !.succeeded[p] = @ \cup {name},
                          !.staged[p] = @ \cup {name}]
  /\ UNCHANGED << world, reqVars, files, settingMutex, sync, remote, ctxDone, storeErr, get >>

\* ------------------------------------------------- the Object Store client

\* The error of qiniuKodoClient.StatObject: the store's failure, or
\* whether the object is there.
StatObject(name) ==
  IF storeErr # Nil THEN storeErr
  ELSE IF name \in DOMAIN remote THEN Nil ELSE NoSuchKey

\* The bucket after a successful PutObject: the object of the name is
\* (re)written with the body read from the file.
PutObject(name, body) ==
  Put(remote, name, [body |-> body, contentType |-> ContentTypeOf(name)])

\* --------------------------------------------- gc.startSetCache (162-237)

\* A Set call on k is under way in p.
InFlight(p, k) == \E c \in Callers : setter[p][c].pc # "idle" /\ setter[p][c].name = k

\* A failed call in the current scan: the cycle is not a successful one.
ScanFailed(p) == [hist EXCEPT !.scanClean[p] = FALSE]

\* A failed store call for the key the callback is at.
StoreCallFailed(p) == [ScanFailed(p) EXCEPT !.retry[p] = @ \cup {sync[p].k}]

\* The callback returns true: Range goes on with the next entry.
SyncContinue(p) ==
  [sync EXCEPT ![p] = [SyncOff EXCEPT !.pc = "range", !.todo = sync[p].todo,
                                      !.seen = sync[p].seen]]

\* (a synchronizer that never sees the cancellation)
ContextErrNever == FALSE

\* base.Context.Err() != nil (166, 171).
ContextErr == ctxDone

\* time.Sleep, the check of base.Context, and the start of Range over
\* gc.settingCaches (165-170).
SyncWake(p) ==
  /\ sync[p].pc = "sleep"
  /\ IF ContextErr
     THEN /\ sync' = [sync EXCEPT ![p].pc = "exit"]
          /\ UNCHANGED hist
     ELSE /\ sync' = [sync EXCEPT ![p].pc = "range",
                                  ![p].todo = DOMAIN settingCaches[p],
                                  ![p].seen = {}]
          /\ hist' = [hist EXCEPT !.scanKeys[p] = {k \in hist.succeeded[p] : ~InFlight(p, k)},
                                  !.scanClean[p] = TRUE]
  /\ UNCHANGED << world, reqVars, files, settingCaches, settingMutex, setter, remote,
                  ctxDone, storeErr, get >>

\* Range calls the callback for an entry not yet visited; the callback
\* first checks base.Context (171-173) and ends the Range when cancelled.
SyncNext(p) ==
  /\ sync[p].pc = "range"
  /\ \E k \in DOMAIN settingCaches[p] \ sync[p].seen :
       IF ContextErr
       THEN /\ sync' = [sync EXCEPT ![p] = [SyncOff EXCEPT !.pc = "sleep"]]
            /\ hist' = ScanFailed(p)
       ELSE /\ sync' = [sync EXCEPT ![p].pc = "open", ![p].k = k,
                                    ![p].v = settingCaches[p][k],
                                    ![p].seen = @ \cup {k}]
            /\ UNCHANGED hist
  /\ UNCHANGED << world, reqVars, files, settingCaches, settingMutex, setter, remote,
                  ctxDone, storeErr, get >>

\* Range has visited every entry that was there when it began and is still
\* there (entries stored meanwhile may or may not be visited): the scan is
\* over, the loop sleeps again.
SyncRangeEnd(p) ==
  /\ sync[p].pc = "range"
  /\ (sync[p].todo \ sync[p].seen) \cap DOMAIN settingCaches[p] = {}
  /\ sync' = [sync EXCEPT ![p] = [SyncOff EXCEPT !.pc = "sleep"]]
  /\ UNCHANGED << world, reqVars, files, settingCaches, settingMutex, setter, remote,
                  ctxDone, storeErr, get, hist >>

\* os.Open and Stat of the staged file (175-188).
SyncOpen(p) ==
  LET v == sync[p].v IN
  /\ sync[p].pc = "open"
  /\ \/ /\ v \in DOMAIN files[p]
        /\ sync' = [sync EXCEPT ![p].pc = "statObject",
                                ![p].fd = [from |-> p, len |-> files[p][v].len],
                                ![p].size = files[p][v].len]
        /\ UNCHANGED << settingCaches, hist >>
     \/ /\ v \notin DOMAIN files[p]
        /\ settingCaches' = [settingCaches EXCEPT ![p] = Drop(@, sync[p].k)]
        /\ sync' = SyncContinue(p)
        /\ UNCHANGED hist
     \/ /\ sync' = SyncContinue(p)
        /\ hist' = ScanFailed(p)
        /\ UNCHANGED settingCaches
  /\ UNCHANGED << world, reqVars, files, settingMutex, setter, remote, ctxDone, storeErr, get >>

\* (a synchronizer that uploads whatever StatObject answers)
AfterStatObjectAlwaysPut(err) ==
  IF err = Nil \/ isMinIOObjectNotExist(err) THEN "put" ELSE "range"

\* (a synchronizer that drops its copy when the store fails)
AfterStatObjectDropOnError(err) ==
  IF isMinIOObjectNotExist(err) THEN "put" ELSE "delete"

\* (a synchronizer that tries the upload after a failed StatObject)
AfterStatObjectPutOnError(err) == IF err = Nil THEN "delete" ELSE "put"

\* Where the callback goes after StatObject (196-204): present, the entry
\* is to be dropped; absent, the file is to be uploaded; another error
\* leaves the entry pending.
AfterStatObject(err) ==
  IF err = Nil THEN "delete"
  ELSE IF isMinIOObjectNotExist(err) THEN "put" ELSE "range"

\* StatObject of the name (191-204).
SyncStatObject(p) ==
  LET err == StatObject(sync[p].k)
      to == AfterStatObject(err) IN
  /\ sync[p].pc = "statObject"
  /\ sync' = IF to = "range" THEN SyncContinue(p)
             ELSE [sync EXCEPT ![p].pc = to,
                               ![p].by = IF to = "delete" THEN "stat" ELSE ""]
  /\ hist' = IF err # Nil /\ ~isMinIOObjectNotExist(err) THEN StoreCallFailed(p) ELSE hist
  /\ UNCHANGED << world, reqVars, files, settingCaches, settingMutex, setter, remote,
                  ctxDone, storeErr, get >>

\* What the open descriptor reads: the file at the path, or, once it is
\* unlinked, what it held when it was opened.
ReadFile(p) ==
  IF sync[p].v \in DOMAIN files[p]
  THEN [from |-> p, len |-> files[p][sync[p].v].len]
  ELSE sync[p].fd

\* The error of PutObject: the store's failure, or a file that does not
\* yield the announced number of bytes.
PutObjectErr(p) ==
  IF storeErr # Nil THEN storeErr
  ELSE IF ReadFile(p).len # sync[p].size THEN ErrIO ELSE Nil

\* PutObject of the file with the size Stat reported (216-231): it
\* succeeds only if the file yields that many bytes.
SyncPut(p) ==
  /\ sync[p].pc = "put"
  /\ \/ /\ PutObjectErr(p) = Nil
        /\ remote' = PutObject(sync[p].k, ReadFile(p))
        /\ sync' = [sync EXCEPT ![p].pc = "delete", ![p].by = "put"]
        /\ UNCHANGED hist
     \/ /\ PutObjectErr(p) # Nil
        /\ sync' = SyncContinue(p)
        /\ hist' = StoreCallFailed(p)
        /\ UNCHANGED remote
  /\ UNCHANGED << world, reqVars, files, settingCaches, settingMutex, setter, ctxDone, storeErr, get >>

\* gc.settingCaches.Delete(k) (197, 227).
SyncDelete(p) ==
  /\ sync[p].pc = "delete"
  /\ settingCaches' = [settingCaches EXCEPT ![p] = Drop(@, sync[p].k)]
  /\ sync' = [sync EXCEPT ![p].pc = "lock"]
  /\ UNCHANGED << world, reqVars, files, settingMutex, setter, remote, ctxDone, storeErr, get, hist >>

\* gc.settingMutex.Lock() (198, 228).
SyncLock(p) ==
  /\ sync[p].pc = "lock"
  /\ settingMutex[p] = Nil
  /\ settingMutex' = [settingMutex EXCEPT ![p] = "sync"]
  /\ sync' = [sync EXCEPT ![p].pc = "remove"]
  /\ UNCHANGED << world, reqVars, files, settingCaches, setter, remote, ctxDone, storeErr, get, hist >>

\* os.Remove(localCacheFile.Name()) and Unlock (199-200, 229-230).
SyncRemove(p) ==
  /\ sync[p].pc = "remove"
  /\ files' = [files EXCEPT ![p] = Drop(@, sync[p].v)]
  /\ settingMutex' = Unlock(p)
  /\ sync' = SyncContinue(p)
  /\ UNCHANGED << world, reqVars, settingCaches, setter, remote, ctxDone, storeErr, get, hist >>

\* The Object Store starts or stops failing.
StoreFault(e) ==
  /\ e \in world.faults \cup {Nil}
  /\ e # storeErr
  /\ storeErr' = e
  /\ UNCHANGED << world, reqVars, files, settingCaches, settingMutex, setter, sync,
                  remote, ctxDone, get, hist >>

\* The process-wide context is cancelled: shutdown is signalled.
Cancel ==
  /\ ~ctxDone
  /\ ctxDone' = TRUE
  /\ UNCHANGED << world, reqVars, files, settingCaches, settingMutex, setter, sync,
                  remote, storeErr, get, hist >>

\* ----------------------------------------------------------- gc.Get (240-279)

\* (a Get that takes a locally staged file for a stored object)
GetStatLocal(name) ==
  IF \E p \in Procs : LocalCacheFileName(p, name) \in DOMAIN files[p]
  THEN Nil ELSE StatObject(name)

\* The answer of StatObject to Get (244-249).
GetStat(name) == StatObject(name)

\* (a Get that reports every failure as a miss)
GetStatErrMasked(err) == ErrNotExist

\* The error Get returns after a failed StatObject (250-256): absent is
\* fs.ErrNotExist, any other error is returned as it is.
GetStatErr(err) == IF isMinIOObjectNotExist(err) THEN ErrNotExist ELSE err

\* Get is called: StatObject, then on to GetObject or out with the error.
GetCall(name) ==
  /\ get.pc \in {"idle", "done"}
  /\ name \in world.keys
  /\ \/ /\ GetStat(name) = Nil
        /\ get' = [pc |-> "open", name |-> name, err |-> "none", body |-> NoBody]
     \/ /\ GetStat(name) # Nil
        /\ get' = [pc |-> "done", name |-> name, err |-> GetStatErr(GetStat(name)),
                   body |-> NoBody]
  /\ UNCHANGED << world, reqVars, files, settingCaches, settingMutex, setter, sync,
                  remote, ctxDone, storeErr, hist >>

\* The stream GetObject opens: the body of the object of the name.
GetObject(name) == IF name \in DOMAIN remote THEN remote[name].body ELSE NoBody

\* GetObject (264-278): the stream of the object, or the error as it is.
GetOpen ==
  /\ get.pc = "open"
  /\ \/ /\ storeErr = Nil
        /\ get' = [get EXCEPT !.pc = "done", !.err = Nil,
                              !.body = GetObject(get.name)]
     \/ /\ storeErr # Nil
        /\ get' = [get EXCEPT !.pc = "done", !.err = storeErr]
  /\ UNCHANGED << world, reqVars, files, settingCaches, settingMutex, setter, sync,
                  remote, ctxDone, storeErr, hist >>

\* ------------------------------------- the checksum of Get (258-262, 274-278)

\* md5.Size, the length of a checksum in bytes.
Md5Size == 16

HexLower == << "0", "1", "2", "3", "4", "5", "6", "7", "8", "9",
               "a", "b", "c", "d", "e", "f" >>

HexUpper == << "0", "1", "2", "3", "4", "5", "6", "7", "8", "9",
               "A", "B", "C", "D", "E", "F" >>

\* The value of a hexadecimal digit of either case, 255 for any other
\* character (the table of encoding/hex).
reverseHexTable(ch) ==
  IF \E i \in 1 .. 16 : HexLower[i] = ch
  THEN (CHOOSE i \in 1 .. 16 : HexLower[i] = ch) - 1
  ELSE IF \E i \in 1 .. 16 : HexUpper[i] = ch
       THEN (CHOOSE i \in 1 .. 16 : HexUpper[i] = ch) - 1
       ELSE 255

\* hex.Decode from position j on: pairs of digits become bytes until the
\* first character that is no digit; a single digit left over is a length
\* error. The bytes decoded before the error are kept.
RECURSIVE HexDecode(_, _, _)
HexDecode(src, j, dst) ==
  IF j + 1 <= Len(src)
  THEN IF reverseHexTable(src[j]) > 15 \/ reverseHexTable(src[j + 1]) > 15
       THEN [bytes |-> dst, err |-> "InvalidByteError"]
       ELSE HexDecode(src, j + 2,
                      Append(dst, reverseHexTable(src[j]) * 16
                                    + reverseHexTable(src[j + 1])))
  ELSE IF j = Len(src)
       THEN IF reverseHexTable(src[j]) > 15
            THEN [bytes |-> dst, err |-> "InvalidByteError"]
            ELSE [bytes |-> dst, err |-> "ErrLength"]
       ELSE [bytes |-> dst, err |-> Nil]

\* hex.DecodeString(s): the bytes decoded, and the error.
DecodeString(s) == HexDecode(s, 1, << >>)

\* md5.Sum of a string: a digest of md5.Size bytes, one per string, kept
\* apart from every sequence of decoded bytes.
Md5Sum(str) == << "md5", str >>

\* (a checksum that trusts the tag whenever some bytes were decoded)
ChecksumOfAnyLength(eTag) ==
  IF Len(DecodeString(eTag).bytes) = 0 THEN Md5Sum(eTag)
  ELSE DecodeString(eTag).bytes

\* The checksum Get derives from objectInfo.ETag (258-262): the error of
\* DecodeString is dropped, only the length of what it decoded is looked at.
Checksum(eTag) ==
  IF Len(DecodeString(eTag).bytes) # Md5Size THEN Md5Sum(eTag)
  ELSE DecodeString(eTag).bytes

\* Get derives the checksum of the reader it returns.
DeriveChecksum ==
  /\ reader.pc = "stat"
  /\ reader' = [reader EXCEPT !.pc = "done", !.checksum = Checksum(reader.eTag)]
  /\ UNCHANGED << world, files, settingCaches, settingMutex, setter, sync,
                  remote, ctxDone, storeErr, get, hist, http, probe, shutdown >>

\* The MD5 digest of the empty content, in hexadecimal.
Digest == << "d", "4", "1", "d", "8", "c", "d", "9", "8", "f", "0", "0", "b", "2", "0", "4", "e", "9", "8", "0", "0", "9", "9", "8", "e", "c", "f", "8", "4", "2", "7", "e" >>

\* The characters entity tags are made of besides those of the digest.
TagChars == {"a", "F", "2", "-", "g"}

\* The sequences over S of length at most n.
SeqsUpTo(S, n) == UNION {[1 .. m -> S] : m \in 0 .. n}

\* The entity tags of the model: nothing, or nearly all or all of the
\* digest, followed by a short tail.
ETags ==
  {SubSeq(Digest, 1, n) \o t :
     n \in {0, 2 * Md5Size - 2, 2 * Md5Size - 1, 2 * Md5Size},
     t \in SeqsUpTo(TagChars, MaxSuffix)}

\* ------------------------------------------------ strings, as sequences

\* strings.HasPrefix(s, prefix).
HasPrefix(s, prefix) ==
  Len(s) >= Len(prefix) /\ SubSeq(s, 1, Len(prefix)) = prefix

\* strings.Contains(s, substr).
Contains(s, substr) ==
  \E i \in 1 .. (Len(s) - Len(substr) + 1) :
    SubSeq(s, i, i + Len(substr) - 1) = substr

\* strings.TrimPrefix(s, prefix).
TrimPrefix(s, prefix) ==
  IF HasPrefix(s, prefix) THEN SubSeq(s, Len(prefix) + 1, Len(s)) ELSE s

\* (an extension taken from the first dot of the last element)
RECURSIVE FirstDotFrom(_, _)
FirstDotFrom(path, i) ==
  IF i < 1 \/ path[i] = "/" THEN << >>
  ELSE LET before == FirstDotFrom(path, i - 1) IN
       IF before # << >> THEN before
       ELSE IF path[i] = "." THEN SubSeq(path, i, Len(path)) ELSE << >>

PathExtFirstDot(path) == FirstDotFrom(path, Len(path))

\* path.Ext searching backwards from position i: the suffix from the last
\* dot of the last slash-separated element, empty if it has no dot.
RECURSIVE ExtFrom(_, _)
ExtFrom(path, i) ==
  IF i < 1 \/ path[i] = "/" THEN << >>
  ELSE IF path[i] = "." THEN SubSeq(path, i, Len(path))
  ELSE ExtFrom(path, i - 1)

\* path.Ext(path).
PathExt(path) == ExtFrom(path, Len(path))

\* The slash-separated elements of s from position i on, cur being the
\* element under way.
RECURSIVE SplitFrom(_, _, _)
SplitFrom(s, i, cur) ==
  IF i > Len(s) THEN << cur >>
  ELSE IF s[i] = "/" THEN << cur >> \o SplitFrom(s, i + 1, << >>)
  ELSE SplitFrom(s, i + 1, Append(cur, s[i]))

\* The elements path.Clean keeps: empty and "." elements go, ".." takes
\* the element before it away, or goes itself at the root.
RECURSIVE CleanElems(_, _, _, _)
CleanElems(elems, i, rooted, kept) ==
  IF i > Len(elems) THEN kept
  ELSE LET e == elems[i] IN
       IF e = << >> \/ e = << "." >> THEN CleanElems(elems, i + 1, rooted, kept)
       ELSE IF e = << ".", "." >>
            THEN IF kept # << >> /\ kept[Len(kept)] # << ".", "." >>
                 THEN CleanElems(elems, i + 1, rooted, SubSeq(kept, 1, Len(kept) - 1))
                 ELSE IF rooted THEN CleanElems(elems, i + 1, rooted, kept)
                      ELSE CleanElems(elems, i + 1, rooted, Append(kept, e))
            ELSE CleanElems(elems, i + 1, rooted, Append(kept, e))

\* The elements joined by slashes.
RECURSIVE JoinFrom(_, _)
JoinFrom(elems, i) ==
  IF i > Len(elems) THEN << >>
  ELSE IF i = Len(elems) THEN elems[i]
  ELSE elems[i] \o << "/" >> \o JoinFrom(elems, i + 1)

\* path.Clean(path): the shortest equivalent path.
PathClean(path) ==
  IF path = << >> THEN << "." >>
  ELSE LET rooted == path[1] = "/"
           kept == CleanElems(SplitFrom(path, 1, << >>), 1, rooted, << >>)
           out == (IF rooted THEN << "/" >> ELSE << >>) \o JoinFrom(kept, 1)
       IN IF out = << >> THEN << "." >> ELSE out

\* ---------------------------- isAutoRedirectableGoproxyCache (349-353)

SumdbPrefix == << "s", "u", "m", "d", "b", "/" >>

VersionsSegment == << "/", "@", "v", "/" >>

ZipExt == << ".", "z", "i", "p" >>

\* isAutoRedirectableGoproxyCache(name).
isAutoRedirectableGoproxyCache(name) ==
  /\ ~HasPrefix(name, SumdbPrefix)
  /\ Contains(name, VersionsSegment)
  /\ PathExt(name) = ZipExt

\* The function is called on the name.
ProbeCall ==
  /\ probe.pc = "call"
  /\ probe' = [probe EXCEPT !.pc = "done",
                            !.result = isAutoRedirectableGoproxyCache(probe.name)]
  /\ UNCHANGED << world, files, settingCaches, settingMutex, setter, sync,
                  remote, ctxDone, storeErr, get, hist, reader, http, shutdown >>

\* The three names of the specification's examples.
ExampleZip == << "e", "x", "a", "m", "p", "l", "e", ".", "c", "o", "m", "/", "m", "o", "d", "/", "@", "v", "/", "v", "1", ".", "0", ".", "0", ".", "z", "i", "p" >>

ExampleSumdb == << "s", "u", "m", "d", "b", "/", "e", "x", "a", "m", "p", "l", "e", ".", "c", "o", "m", "/", "l", "o", "o", "k", "u", "p", "/", "m", "o", "d", "@", "v", "1", ".", "0", ".", "0" >>

ExampleInfo == << "e", "x", "a", "m", "p", "l", "e", ".", "c", "o", "m", "/", "m", "o", "d", "/", "@", "v", "/", "v", "1", ".", "0", ".", "0", ".", "i", "n", "f", "o" >>

\* How the names of the model begin, go on and end.
NameHeads == {<< >>,
   << "s", "u", "m", "d", "b", "/" >>,
   << "s", "u", "m", "d", "b" >>,
   << "x", "/" >>,
   << "/", "s", "u", "m", "d", "b", "/" >>}

NameMiddles == {<< "m", "/", "@", "v", "/" >>,
   << "m", "@", "v", "/" >>,
   << "m", "/", "@", "v" >>,
   << "@", "v", "/" >>,
   << "m", "/" >>}

NameTails == {<< "v", ".", "z", "i", "p" >>,
   << "v", ".", "i", "n", "f", "o" >>,
   << "v", ".", "m", "o", "d" >>,
   << "v", ".", "z", "i", "p", "/" >>,
   << "v", "z", "i", "p" >>,
   << ".", "z", "i", "p" >>,
   << "v", ".", "z", "i", "p", ".", "x" >>,
   << "v", ".", "x", ".", "z", "i", "p" >>,
   << "v", ".", "z", "i", "p", "/", "@", "v", "/", "x" >>}

\* The names the function is called on.
Names ==
  {ExampleZip, ExampleSumdb, ExampleInfo}
    \cup {h \o m \o t : h \in NameHeads, m \in NameMiddles, t \in NameTails}

InitEligible ==
  /\ NewCachers(Reader)
  /\ reader = NoReader
  /\ http = NoRequest
  /\ probe \in {[pc |-> "call", name |-> n, result |-> FALSE] : n \in Names}

\* ------------------------------------------------------ hGoproxy (95-151)

\* The validity of a pre-signed URL, 7*24*time.Hour, in seconds.
PresignExpiry == 7 * 24 * 60 * 60

\* The response-cache-control parameter of a pre-signed URL.
PresignCacheControl == "public, max-age=604800"

\* goproxyAutoRedirect and goproxyAutoRedirectMinSize, the configuration.
goproxyAutoRedirect == world.autoRedirect

goproxyAutoRedirectMinSize == world.minSize

\* (a threshold that also proxies an object of exactly the minimum size)
TooSmallOrEqual(size) == size <= goproxyAutoRedirectMinSize

\* objectInfo.Size < goproxyAutoRedirectMinSize (129).
TooSmall(size) == size < goproxyAutoRedirectMinSize

\* hhGoproxy.ServeHTTP: the request is handed to the proxy.
Proxied == [kind |-> "proxy", err |-> Nil, url |-> << >>]

\* res.Redirect(u.String()) with the URL Presign made (134-150).
Redirected(method, key) ==
  [kind |-> "redirect", err |-> Nil,
   url |-> << method, key, PresignExpiry, PresignCacheControl >>]

\* (a handler that falls back to the proxy on every error)
FailedFallsBack(err) == [kind |-> "proxy", err |-> Nil, url |-> << >>]

\* The handler returns the error to the request layer.
Failed(err) == [kind |-> "error", err |-> err, url |-> << >>]

\* The name hGoproxy looks up (105).
RequestName(rawPath) == TrimPrefix(PathClean(rawPath), << "/" >>)

\* The response of hGoproxy (105-150).
Respond(rawPath, method, presignErr) ==
  LET name == RequestName(rawPath) IN
  IF ~goproxyAutoRedirect \/ ~isAutoRedirectableGoproxyCache(name) THEN Proxied
  ELSE IF StatObject(name) # Nil
       THEN IF isMinIOObjectNotExist(StatObject(name)) THEN Proxied
            ELSE Failed(StatObject(name))
       ELSE IF TooSmall(remote[name].body.len) THEN Proxied
            ELSE IF presignErr # Nil THEN Failed(presignErr)
                 ELSE Redirected(method, name)

\* hGoproxy handles the request.
HGoproxy ==
  /\ http.pc = "recv"
  /\ http' = [http EXCEPT !.pc = "done",
                          !.res = Respond(http.rawPath, http.method, http.presignErr)]
  /\ UNCHANGED << world, files, settingCaches, settingMutex, setter, sync,
                  remote, ctxDone, storeErr, get, hist, reader, probe, shutdown >>

\* The raw paths of the requests of the model.
RawPaths == {<< "/", "m", "/", "@", "v", "/", "v", ".", "z", "i", "p" >>,
   << "/", "m", "/", "@", "v", "/", "v", ".", "i", "n", "f", "o" >>,
   << "/", "s", "u", "m", "d", "b", "/", "s", "/", "@", "v", "/", "v", ".", "z", "i", "p" >>,
   << "/", "/", "m", "/", ".", "/", "@", "v", "/", "v", ".", "z", "i", "p" >>,
   << "/", "m", "/", "@", "v", "/", ".", ".", "/", "v", ".", "z", "i", "p" >>,
   << "/", "x", "/", ".", ".", "/", "s", "u", "m", "d", "b", "/", "m", "/", "@", "v", "/", "v", ".", "z", "i", "p" >>,
   << "/", "m", "/", "@", "v", "/", "v", ".", "z", "i", "p", "/" >>}

\* The configured minimum sizes, and the sizes of the objects.
MinSizes == {0, 2, 1000}

ObjectSizes == (0 .. MaxObjectSize) \cup {999, 1000, 1001}

\* The configurations of the redirect feature.
RedirectWorlds ==
  {[procs |-> {}, callers |-> {}, keys |-> {}, calls |-> 0, faults |-> StoreErrors,
    autoRedirect |-> b, minSize |-> m] : b \in BOOLEAN, m \in MinSizes}

\* A bucket holding the object of the name, of the size.
BucketWith(name, size) ==
  Put(Empty, name, [body |-> [from |-> "p1", len |-> size],
                    contentType |-> "application/zip"])

\* A request arrives; the bucket is empty or holds the object it names; the
\* store answers or fails.
InitRedirect ==
  /\ world \in RedirectWorlds
  /\ files = [p \in Procs |-> Empty]
  /\ settingCaches = [p \in Procs |-> Empty]
  /\ settingMutex = [p \in Procs |-> Nil]
  /\ setter = [p \in Procs |-> [c \in Callers |-> IdleSetter]]
  /\ sync = [p \in Procs |-> SyncOff]
  /\ ctxDone = FALSE
  /\ get = IdleGet
  /\ hist = NoHist
  /\ reader = NoReader
  /\ probe = NoProbe
  /\ shutdown = NoShutdown
  /\ storeErr \in StoreErrors \cup {Nil}
  /\ http \in {[pc |-> "recv", rawPath |-> r, method |-> m, presignErr |-> e,
                res |-> NoResponse] :
                 r \in RawPaths, m \in {"GET", "HEAD"}, e \in {Nil, "ErrPresign"}}
  /\ remote \in {Empty} \cup {BucketWith(RequestName(http.rawPath), z) : z \in ObjectSizes}

\* Get has the entity tag of an object and is about to derive its checksum.
InitChecksum ==
  /\ NewCachers(Reader)
  /\ reader \in {[pc |-> "stat", eTag |-> t, checksum |-> << >>] : t \in ETags}
  /\ http = NoRequest
  /\ probe = NoProbe

\* ------------------------------------------- the shutdown job (77-85)

\* The number of removal attempts of the shutdown job (78).
ShutdownRetries == 60

\* The process whose shutdown is modelled.
Closing ==
  [procs |-> {"p1"}, callers |-> {"c1"}, keys |-> Keys, calls |-> MaxSetCallsEach,
   faults |-> {}]

InitShutdown == InitWith(Closing)

\* (a loop that goes on after a removal that succeeded)
ShutdownNeverBreaks(err) == FALSE

\* if err == nil { break } (81-83).
ShutdownBreaks(err) == err = Nil

\* The server shuts down and runs its shutdown jobs: the loop begins.
ShutdownSignal ==
  /\ shutdown.pc = "none"
  /\ shutdown' = [shutdown EXCEPT !.pc = "loop", !.i = 0]
  /\ UNCHANGED << world, files, settingCaches, settingMutex, setter, sync, remote,
                  ctxDone, storeErr, get, hist, reader, http, probe >>

\* The job after an attempt that returned err: out of the loop on
\* success, else the next iteration.
AfterRemoveAll(err, rootLeft) ==
  [pc |-> IF ShutdownBreaks(err) THEN "done" ELSE "loop",
   i |-> IF ShutdownBreaks(err) THEN shutdown.i ELSE shutdown.i + 1,
   root |-> rootLeft,
   tries |-> shutdown.tries + 1,
   succ |-> IF err = Nil THEN shutdown.succ + 1 ELSE shutdown.succ]

\* One iteration (78-83): a sleep, then os.RemoveAll of the staging root.
\* It removes the root with all it holds and returns nil (also when the
\* root is already gone), or fails, having removed some of the files, and
\* leaves the root.
ShutdownAttempt(p) ==
  /\ shutdown.pc = "loop"
  /\ shutdown.i < ShutdownRetries
  /\ \/ /\ files' = [files EXCEPT ![p] = Empty]
        /\ shutdown' = AfterRemoveAll(Nil, FALSE)
     \/ /\ shutdown.root
        /\ \E gone \in SUBSET DOMAIN files[p] :
             files' = [files EXCEPT ![p] = [x \in DOMAIN files[p] \ gone |-> files[p][x]]]
        /\ shutdown' = AfterRemoveAll(ErrIO, TRUE)
  /\ UNCHANGED << world, settingCaches, settingMutex, setter, sync, remote,
                  ctxDone, storeErr, get, hist, reader, http, probe >>

\* The loop ends with its budget used up (78).
ShutdownGiveUp ==
  /\ shutdown.pc = "loop"
  /\ shutdown.i >= ShutdownRetries
  /\ shutdown' = [shutdown EXCEPT !.pc = "done"]
  /\ UNCHANGED << world, files, settingCaches, settingMutex, setter, sync, remote,
                  ctxDone, storeErr, get, hist, reader, http, probe >>

ShutdownSteps ==
  \/ ShutdownSignal
  \/ \E p \in world.procs : ShutdownAttempt(p)
  \/ ShutdownGiveUp

\* ------------------------------------------------------ the specifications

SetSteps ==
  \/ \E p \in world.procs, c \in world.callers, name \in world.keys : SetCall(p, c, name)
  \/ \E p \in world.procs, c \in world.callers : SetLock(p, c)
  \/ \E p \in world.procs, c \in world.callers : SetStat(p, c)
  \/ \E p \in world.procs, c \in world.callers : SetCreate(p, c)
  \/ \E p \in world.procs, c \in world.callers : SetCopy(p, c)
  \/ \E p \in world.procs, c \in world.callers : SetClose(p, c)
  \/ \E p \in world.procs, c \in world.callers : SetCleanup(p, c)
  \/ \E p \in world.procs, c \in world.callers : SetStore(p, c)

SyncSteps ==
  \/ \E p \in world.procs : SyncWake(p)
  \/ \E p \in world.procs : SyncNext(p)
  \/ \E p \in world.procs : SyncRangeEnd(p)
  \/ \E p \in world.procs : SyncOpen(p)
  \/ \E p \in world.procs : SyncStatObject(p)
  \/ \E p \in world.procs : SyncPut(p)
  \/ \E p \in world.procs : SyncDelete(p)
  \/ \E p \in world.procs : SyncLock(p)
  \/ \E p \in world.procs : SyncRemove(p)

GetSteps ==
  \/ \E name \in world.keys : GetCall(name)
  \/ GetOpen

FaultSteps == \E e \in StoreErrors \cup {Nil} : StoreFault(e)

Next == SetSteps \/ SyncSteps \/ FaultSteps \/ Cancel

NextTwo == SetSteps \/ SyncSteps \/ FaultSteps

NextGet == SetSteps \/ SyncSteps \/ FaultSteps \/ GetSteps

\* Set can act on the staging directory only while its root exists.
NextShutdown == (shutdown.root /\ SetSteps) \/ ShutdownSteps

\* One process: two callers of Set on two keys, and the synchronizer.
Spec == Init /\ [][Next]_vars

\* Two processes over one bucket, one caller of Set in each.
SpecTwo == InitTwo /\ [][NextTwo]_vars

\* One process with one caller of Set, and a caller of Get.
SpecGet == InitGet /\ [][NextGet]_vars

\* The derivation of the checksum, for every entity tag of the model.
SpecChecksum == InitChecksum /\ [][DeriveChecksum]_vars

\* hGoproxy, for every request, configuration and bucket of the model.
SpecRedirect == InitRedirect /\ [][HGoproxy]_vars

\* isAutoRedirectableGoproxyCache, for every name of the model.
SpecEligible == InitEligible /\ [][ProbeCall]_vars

\* The shutdown job beside the calls of Set of one process; the job, once
\* begun, is run to its end.
SpecShutdown == InitShutdown /\ [][NextShutdown]_vars /\ WF_vars(ShutdownSteps)

\* ------------------------------------------------------------- the claims

\* The staged file of name k in process p.
Staged(p, k) == LocalCacheFileName(p, k)

\* The callers of p that hold an open descriptor on the staged file of k.
Writers(p, k) ==
  {c \in Callers : /\ setter[p][c].name = k
                   /\ setter[p][c].pc \in {"copy", "close", "cleanup", "store"}}

\* C1: for every key for which Set returned success, once the synchronizer
\* has completed a full scan in which every call succeeded, the object is
\* in the Object Store (Get succeeds) and no staged file of the key is
\* left. Stated for the keys on which a Set returned success and every
\* Set had returned when the scan began, and none was called since.
C1Convergence ==
  [][\A p \in Procs :
       (SyncRangeEnd(p) /\ hist.scanClean[p]) =>
         \A k \in hist.scanKeys[p] :
           /\ k \in DOMAIN remote
           /\ Staged(p, k) \notin DOMAIN files[p]]_vars

\* C2: whenever Set returns success, the content is staged in a complete
\* local file and the name is registered in the pending-set registry.
C2SuccessMeansStaged ==
  [][\A p \in Procs, c \in Callers :
       (/\ setter[p][c].pc # "idle"
        /\ setter'[p][c].pc = "idle"
        /\ setter'[p][c].ret = Nil) =>
         LET k == setter[p][c].name IN
         /\ Staged(p, k) \in DOMAIN files'[p]
         /\ files'[p][Staged(p, k)].len = FullLen
         /\ Writers(p, k) \ {c} = {}
         /\ k \in DOMAIN settingCaches'[p]]_vars

C4NoOverwrite ==
  [][\A p \in Procs :
       (sync[p].pc = "put" /\ sync'[p].pc = "delete") =>
         sync[p].k \notin DOMAIN remote]_vars

\* C5: when two processes have each Set the same key, then after each
\* synchronizer's full successful scan the Object Store holds the object
\* of the key and the process has neither the staged file nor the entry;
\* a synchronizer that finds the object present drops its copy and
\* uploads nothing.
C5ConflictSafe ==
  [][\A p \in Procs :
       /\ (SyncRangeEnd(p) /\ hist.scanClean[p]) =>
            \A k \in hist.scanKeys[p] :
              /\ k \in DOMAIN remote
              /\ Staged(p, k) \notin DOMAIN files[p]
              /\ k \notin DOMAIN settingCaches[p]
       /\ (/\ sync[p].pc = "statObject"
           /\ sync'[p] # sync[p]
           /\ storeErr = Nil
           /\ sync[p].k \in DOMAIN remote) =>
            /\ sync'[p].pc = "delete"
            /\ remote' = remote]_vars

\* Both processes have Set the key and both synchronizers have ended a
\* successful scan: the object is stored and both staged copies are gone.
C5Witness ==
  \E k \in Keys :
    /\ k \in DOMAIN remote
    /\ \A p \in Procs :
         /\ k \in hist.scanKeys[p]
         /\ hist.scanClean[p]
         /\ sync[p].pc = "sleep"
         /\ Staged(p, k) \notin DOMAIN files[p]
         /\ k \notin DOMAIN settingCaches[p]

\* C6: Get never reads local staging: every stream it returns is the body
\* of the object in the Object Store, and for a name with no object there,
\* staged locally or not, it returns no stream and an error, which is
\* NotFound when the store answers.
C6GetReadsStoreOnly ==
  [][(get' # get /\ get'.pc = "done") =>
       /\ get'.err = Nil =>
            /\ get'.name \in DOMAIN remote
            /\ get'.body = remote[get'.name].body
       /\ get'.name \notin DOMAIN remote =>
            /\ get'.err # Nil
            /\ get'.body = NoBody
            /\ storeErr = Nil => get'.err = ErrNotExist]_vars

\* Get has answered NotFound for a name whose file is staged locally and
\* whose object is not in the store.
C6Witness ==
  /\ get.pc = "done"
  /\ get.err = ErrNotExist
  /\ get.name \notin DOMAIN remote
  /\ \E p \in Procs : Staged(p, get.name) \in DOMAIN files[p]

\* C7: Get returns fs.ErrNotExist and no stream when the store reports the
\* object absent, returns the store's own error unchanged and no stream
\* when the stat or the open fails otherwise, and changes neither the
\* staging directory nor the registry.
C7GetErrors ==
  [][get' # get =>
       /\ files' = files
       /\ settingCaches' = settingCaches
       /\ get'.pc = "done" =>
            /\ get'.err # Nil => get'.body = NoBody
            /\ storeErr # Nil => get'.err = storeErr
            /\ (storeErr = Nil /\ get'.name \notin DOMAIN remote) =>
                 get'.err = ErrNotExist]_vars

\* Get has returned an error of the store that is not NotFound, while
\* files are staged.
C7Witness ==
  /\ get.pc = "done"
  /\ get.err \in StoreErrors
  /\ \E p \in Procs : DOMAIN files[p] # {}

\* C8: for every entity tag, the checksum of Get is the decoded bytes if
\* the tag decodes without error as hexadecimal to exactly md5.Size bytes,
\* and the hash of the tag string if decoding fails or the length is wrong.
C8ChecksumDerivation ==
  reader.pc = "done" =>
    IF /\ DecodeString(reader.eTag).err = Nil
       /\ Len(DecodeString(reader.eTag).bytes) = Md5Size
    THEN reader.checksum = DecodeString(reader.eTag).bytes
    ELSE reader.checksum = Md5Sum(reader.eTag)

\* C9: with a store that answers, hGoproxy redirects to a pre-signed URL
\* (valid 7 days, cache directive "public, max-age=604800") if and only if
\* auto-redirect is enabled, the name is eligible, the object exists and
\* its size is at least the configured minimum; in every other case the
\* request is handed to the proxy.
C9RedirectDecision ==
  (http.pc = "done" /\ storeErr = Nil /\ http.presignErr = Nil) =>
    LET name == RequestName(http.rawPath)
        redirect == /\ world.autoRedirect
                    /\ isAutoRedirectableGoproxyCache(name)
                    /\ name \in DOMAIN remote
                    /\ remote[name].body.len >= world.minSize
    IN /\ (http.res.kind = "redirect") <=> redirect
       /\ redirect =>
            /\ http.res.err = Nil
            /\ http.res.url = << http.method, name, 604800, "public, max-age=604800" >>
       /\ ~redirect => http.res = [kind |-> "proxy", err |-> Nil, url |-> << >>]

\* An object of exactly the minimum size, 1000, has been redirected to.
C9Witness ==
  /\ http.pc = "done"
  /\ http.res.kind = "redirect"
  /\ world.minSize = 1000
  /\ remote[RequestName(http.rawPath)].body.len = 1000

\* The name does not begin with "sumdb/".
OutsideSumdb(name) ==
  \E i \in 1 .. 6 : i > Len(name) \/ name[i] # << "s", "u", "m", "d", "b", "/" >>[i]

\* The name has the segment "/@v/" somewhere.
HasVersionsSegment(name) ==
  \E i \in 1 .. (Len(name) - 3) :
    name[i] = "/" /\ name[i + 1] = "@" /\ name[i + 2] = "v" /\ name[i + 3] = "/"

\* The name ends in ".zip".
EndsInZip(name) ==
  /\ Len(name) >= 4
  /\ name[Len(name) - 3] = "."
  /\ name[Len(name) - 2] = "z"
  /\ name[Len(name) - 1] = "i"
  /\ name[Len(name)] = "p"

\* C10: isAutoRedirectableGoproxyCache(name) is true exactly when the name
\* does not start with "sumdb/", contains "/@v/" and has the extension
\* ".zip"; it is true of "example.com/mod/@v/v1.0.0.zip" and false of
\* "sumdb/example.com/lookup/mod@v1.0.0" and "example.com/mod/@v/v1.0.0.info".
C10Eligibility ==
  probe.pc = "done" =>
    /\ probe.result = (/\ OutsideSumdb(probe.name)
                       /\ HasVersionsSegment(probe.name)
                       /\ EndsInZip(probe.name))
    /\ probe.name = ExampleZip => probe.result
    /\ probe.name = ExampleSumdb => ~probe.result
    /\ probe.name = ExampleInfo => ~probe.result

\* The function has answered true for "example.com/mod/@v/v1.0.0.zip".
C10Witness ==
  /\ probe.pc = "done"
  /\ probe.name = ExampleZip
  /\ probe.result

\* C11: the synchronizer is started exactly once per cacher: whatever the
\* number of Set calls, sequential or concurrent, one background task is
\* started, by the first Set, and no Set call runs or returns before the
\* task was started.
C11StartedOnce ==
  \A p \in Procs :
    /\ hist.started[p] <= 1
    /\ (hist.started[p] = 1) <=> (SumOver(hist.calls[p], Keys) > 0)
    /\ (hist.started[p] = 1) <=> (sync[p].pc # "off")
    /\ \A c \in Callers :
         (setter[p][c].pc # "idle" \/ setter[p][c].ret # "none") =>
           hist.started[p] = 1

\* Two Set calls are under way at once on a cacher whose synchronizer has
\* been started once, and a third call has been made.
C11Witness ==
  \E p \in Procs :
    /\ hist.started[p] = 1
    /\ SumOver(hist.calls[p], Keys) = MaxSetCalls
    /\ \A c \in Callers : setter[p][c].pc # "idle"

\* C12: the shutdown job makes at most 60 removal attempts, makes none
\* after the first that succeeds, and terminates; if an attempt succeeded,
\* after failed ones or not, the staging root does not exist when the job
\* ends, and if none did the job ends with its 60 attempts made.
C12ShutdownCleanup ==
  /\ [](/\ shutdown.tries <= ShutdownRetries
        /\ shutdown.succ <= 1
        /\ shutdown.succ = 1 => shutdown.pc = "done"
        /\ shutdown.pc = "done" =>
             /\ shutdown.succ = 1 \/ shutdown.tries = ShutdownRetries
             /\ shutdown.succ = 1 =>
                  /\ ~shutdown.root
                  /\ \A p \in world.procs : files[p] = Empty)
  /\ (shutdown.pc = "loop") ~> (shutdown.pc = "done")

\* The job has ended after a removal that succeeded at the last attempt
\* of its budget, 59 having failed, with a file staged before.
C12Witness ==
  /\ shutdown.pc = "done"
  /\ shutdown.succ = 1
  /\ shutdown.tries = ShutdownRetries
  /\ ~shutdown.root
  /\ \E k \in Keys : hist.created["p1"][k] > 0

\* C13: the synchronizer removes a pending-set entry and deletes a staged
\* file only after the presence of the object of that key was confirmed in
\* the same scan step, by a StatObject or a PutObject that succeeded; and
\* in every reachable state a key whose staging completed (copy, close and
\* registration) has its complete staged file on disk or its object in the
\* Object Store.
C13NoLoss ==
  /\ [][\A p \in Procs :
          /\ \A k \in DOMAIN settingCaches[p] \ DOMAIN settingCaches'[p] :
               /\ k \in DOMAIN remote
               /\ sync[p].k = k
               /\ sync[p].by \in {"stat", "put"}
          /\ (sync[p].pc = "remove" /\ sync'[p].pc # "remove") =>
               /\ sync[p].k \in DOMAIN remote
               /\ sync[p].by \in {"stat", "put"}]_vars
  /\ [](\A p \in Procs : \A k \in hist.staged[p] :
          \/ k \in DOMAIN remote
          \/ /\ Staged(p, k) \in DOMAIN files[p]
             /\ files[p][Staged(p, k)].len = FullLen)

\* The staged file of a key whose staging completed has been deleted by
\* the synchronizer after its upload; the object is in the store.
C13Witness ==
  \E p \in Procs, k \in Keys :
    /\ k \in hist.staged[p]
    /\ k \in DOMAIN remote
    /\ remote[k].body.len = FullLen
    /\ Staged(p, k) \notin DOMAIN files[p]
    /\ k \notin DOMAIN settingCaches[p]
    /\ sync[p].pc = "sleep"

\* C14: in every reachable state every pending-set entry maps its key to
\* the path of a staged file that exists on disk, is completely written
\* and is closed: no entry points to a missing file, to a file a Set call
\* is writing, or to a partial file.
C14RegistryInvariant ==
  \A p \in Procs : \A k \in DOMAIN settingCaches[p] :
    /\ settingCaches[p][k] = Staged(p, k)
    /\ settingCaches[p][k] \in DOMAIN files[p]
    /\ files[p][settingCaches[p][k]].len = FullLen
    /\ \A c \in Callers :
         setter[p][c].name = k => setter[p][c].pc \notin {"copy", "close", "cleanup"}

\* A key is registered, another Set call on it is under way, and the
\* synchronizer is uploading its file.
C14Witness ==
  \E p \in Procs, k \in Keys :
    /\ k \in DOMAIN settingCaches[p]
    /\ InFlight(p, k)
    /\ sync[p].pc = "put"
    /\ sync[p].k = k

\* C15: every body the synchronizer uploads for a key is the complete
\* content copied by a Set call whose copy and close both succeeded; a
\* file that a Set call is still writing, or whose Set failed, is never
\* uploaded, and so every object of the store is complete.
C15NoPartialUploads ==
  /\ [][\A p \in Procs :
          (sync[p].pc = "put" /\ sync'[p].pc = "delete") =>
            LET k == sync[p].k IN
            /\ k \in hist.staged[p]
            /\ remote'[k].body.len = FullLen
            /\ \A c \in Callers :
                 setter[p][c].name = k =>
                   setter[p][c].pc \notin {"copy", "close", "cleanup"}]_vars
  /\ [](\A k \in DOMAIN remote : remote[k].body.len = FullLen)

\* An object has been uploaded on a cacher where a Set call on the same
\* key has failed and another Set call on it is under way.
C15Witness ==
  \E p \in Procs, k \in Keys :
    /\ k \in DOMAIN remote
    /\ k \in hist.failed[p]
    /\ InFlight(p, k)
    /\ sync[p].pc = "delete"
    /\ sync[p].by = "put"
    /\ sync[p].k = k

\* C16: when the copy or the close of the staged file fails, Set deletes
\* the file it created, returns the error and adds no pending-set entry;
\* afterwards the key has neither a staged file nor a registry entry, so
\* that a later Set of the key stages the content again; the deletion
\* never removes a file created by another Set call.
C16FailedSetCleanup ==
  [][\A p \in Procs, c \in Callers :
       LET k == setter[p][c].name
           path == Staged(p, k) IN
       /\ (setter[p][c].pc = "copy" /\ setter'[p][c] # setter[p][c]
              /\ files'[p][path].len < FullLen) =>
            setter'[p][c].pc = "cleanup"
       /\ (setter[p][c].pc = "cleanup" /\ setter'[p][c] # setter[p][c]) =>
            /\ path \in DOMAIN files[p]
            /\ files[p][path].by = c
            /\ path \notin DOMAIN files'[p]
            /\ setter'[p][c].pc = "idle"
            /\ setter'[p][c].ret \notin {Nil, "none"}
            /\ settingCaches' = settingCaches
            /\ k \notin DOMAIN settingCaches'[p]]_vars

\* After a Set of a key failed in its copy or close, a later Set of the
\* same key has created the file again, completed and registered it.
C16Witness ==
  \E p \in Procs, k \in Keys :
    /\ k \in hist.failed[p]
    /\ hist.created[p][k] = 2
    /\ k \in hist.staged[p]
    /\ k \in DOMAIN settingCaches[p]
    /\ files[p][Staged(p, k)].len = FullLen
    /\ k \notin DOMAIN remote

\* C17: when the StatObject of a pending key fails with an error other
\* than not-found, the synchronizer uploads nothing for the key in this
\* cycle and leaves its entry and its staged file unchanged; when
\* PutObject fails, entry and file are likewise unchanged; in both cases
\* the key is not visited again in this cycle and is attempted again in
\* the next, and the error reaches no caller of Set.
C17RetryOnFailure ==
  /\ [][\A p \in Procs :
          /\ (/\ sync[p].pc \in {"statObject", "put"}
              /\ sync'[p] # sync[p]
              /\ storeErr # Nil) =>
               /\ sync'[p].pc = "range"
               /\ remote' = remote
               /\ settingCaches' = settingCaches
               /\ files' = files
               /\ setter' = setter
               /\ sync[p].k \in DOMAIN settingCaches'[p]
               /\ sync[p].v \in DOMAIN files'[p]
               /\ sync[p].k \in sync'[p].seen
          /\ (sync[p].pc = "range" /\ sync'[p].pc = "open") =>
               sync'[p].k \notin sync[p].seen
          /\ (sync[p].pc = "sleep" /\ sync'[p].pc = "range") =>
               sync'[p].todo = DOMAIN settingCaches[p]]_vars
  /\ [](\A p \in Procs, c \in Callers : setter[p][c].ret \notin StoreErrors)

\* A key whose StatObject or PutObject failed in one cycle has been
\* uploaded in a later one, and its staged copy removed.
C17Witness ==
  \E p \in Procs, k \in Keys :
    /\ k \in hist.retry[p]
    /\ k \in DOMAIN remote
    /\ k \notin DOMAIN settingCaches[p]
    /\ Staged(p, k) \notin DOMAIN files[p]
    /\ sync[p].pc = "sleep"

\* C18: once the process-wide cancellation signal is set, the synchronizer
\* begins the processing of no further key (no open, stat or upload of a
\* key not already being processed), abandons the rest of the current
\* scan, terminates when it next reaches the top of its sleep cycle, and
\* never runs another scan.
C18Cancellation ==
  /\ [][\A p \in Procs :
          /\ (ctxDone /\ sync[p].pc = "range" /\ sync'[p] # sync[p]) =>
               sync'[p].pc = "sleep"
          /\ (ctxDone /\ sync[p].pc = "sleep" /\ sync'[p] # sync[p]) =>
               sync'[p].pc = "exit"
          /\ (ctxDone /\ sync[p].pc \in {"off", "sleep", "range"}) =>
               sync'[p].pc \notin {"open", "statObject", "put"}
          /\ sync[p].pc = "exit" => sync'[p] = sync[p]]_vars
  /\ [](\A p \in Procs : sync[p].pc = "exit" => ctxDone)

\* The synchronizer has terminated after the signal, having uploaded one
\* key and left another pending in the registry.
C18Witness ==
  \E p \in Procs, k1, k2 \in Keys :
    /\ ctxDone
    /\ sync[p].pc = "exit"
    /\ k1 \in DOMAIN remote
    /\ k2 \in DOMAIN settingCaches[p]
    /\ Staged(p, k2) \in DOMAIN files[p]

\* C19: the staging mutex is held only across the existence check and the
\* file creation in Set and across the file deletion in the synchronizer,
\* never across a content copy or a store call, and is released on every
\* path: its holder can always take its next step, which releases it, and
\* whoever waits for a free mutex can take it, whatever the other Set
\* calls are copying; no execution deadlocks on the mutex.
C19LockScope ==
  \A p \in world.procs :
    /\ \A c \in Callers :
         (settingMutex[p] = c) <=> (setter[p][c].pc \in {"stat", "create"})
    /\ (settingMutex[p] = "sync") <=> (sync[p].pc = "remove")
    /\ settingMutex[p] \in Callers \cup {"sync", Nil}
    /\ \A c \in world.callers :
         /\ setter[p][c].pc = "stat" => ENABLED SetStat(p, c)
         /\ setter[p][c].pc = "create" => ENABLED SetCreate(p, c)
         /\ (setter[p][c].pc = "lock" /\ settingMutex[p] = Nil) => ENABLED SetLock(p, c)
    /\ sync[p].pc = "remove" => ENABLED SyncRemove(p)
    /\ (sync[p].pc = "lock" /\ settingMutex[p] = Nil) => ENABLED SyncLock(p)

\* One Set call is in its content copy for one key while another Set call
\* holds the mutex for another key and the synchronizer waits for it.
C19Witness ==
  \E p \in Procs, c1, c2 \in Callers :
    /\ setter[p][c1].pc = "copy"
    /\ setter[p][c2].pc = "stat"
    /\ setter[p][c1].name # setter[p][c2].name
    /\ settingMutex[p] = c2
    /\ sync[p].pc = "lock"

\* C20: for an eligible request with auto-redirect enabled, when
\* StatObject fails with an error other than not-found, or when the
\* object is there and large enough and generating the pre-signed URL
\* fails, hGoproxy returns that very error and the request is neither
\* handed to the proxy nor redirected; of the failures only not-found
\* falls back to the proxy.
C20RedirectErrors ==
  (/\ http.pc = "done"
   /\ world.autoRedirect
   /\ isAutoRedirectableGoproxyCache(RequestName(http.rawPath))) =>
    LET name == RequestName(http.rawPath) IN
    /\ storeErr # Nil =>
         http.res = [kind |-> "error", err |-> storeErr, url |-> << >>]
    /\ (/\ storeErr = Nil
        /\ name \in DOMAIN remote
        /\ remote[name].body.len >= world.minSize
        /\ http.presignErr # Nil) =>
         http.res = [kind |-> "error", err |-> http.presignErr, url |-> << >>]
    /\ (storeErr = Nil /\ name \notin DOMAIN remote) =>
         http.res = [kind |-> "proxy", err |-> Nil, url |-> << >>]
    /\ http.res.kind = "error" =>
         \/ storeErr # Nil
         \/ name \in DOMAIN remote /\ http.presignErr # Nil

\* An eligible request has been answered with the error of Presign, for
\* an object of the minimum size, under a cleaned path.
C20Witness ==
  /\ http.pc = "done"
  /\ world.autoRedirect
  /\ storeErr = Nil
  /\ http.res.kind = "error"
  /\ http.res.err = "ErrPresign"
  /\ http.rawPath # << "/" >> \o RequestName(http.rawPath)
  /\ remote[RequestName(http.rawPath)].body.len = world.minSize

====
